---- MODULE Spec2Model ----
(***************************************************************************)
(* CFOne analysis pipeline: the background task process_analysis, the      *)
(* request handlers run_analysis, get_analysis and delete_document, the    *)
(* agents' execute / run_with_retry and NovaClient.invoke_agent.           *)
(*                                                                         *)
(* The durable store (SQLite through SQLAlchemy sessions) is modelled by   *)
(* the variables documents, analyses, agent_results, reports; a session's  *)
(* pending changes become durable only in the step that models db.commit() *)
(* and a commit may raise, which rolls the pending changes back.           *)
(***************************************************************************)
EXTENDS Integers, Sequences, FiniteSets, TLC

(* ------------------------------------------------------------------ *)
(* Bounds and program constants                                         *)
(* ------------------------------------------------------------------ *)

\* number of rows of the documents table in the initial state
NumDocs == 3

\* number of delete_document requests that are served
MaxDeletes == 1

\* Settings.max_retries
max_retries == 3

\* execution_time_ms literal stored with every AgentResult
STORED_EXECUTION_TIME_MS == 1000

\* default of result5.get("loan_readiness_score", 0)
DEFAULT_SCORE == 0

Users == {"u1", "u2"}

AnalysisIds == {"a1"}

DocIds == 1..NumDocs

\* Settings.allowed_extensions
allowed_extensions == {"pdf", "xlsx", "xls"}

\* the five agents in the order in which process_analysis runs them
AgentNames ==
  <<"Financial Analyzer", "Cash Flow Forecaster", "Risk Detector",
    "Automation Agent", "Explainability Agent">>

NumStages == Len(AgentNames)

ERR_NO_DOCUMENTS == "No documents found"

ERR_NO_TEXT == "No text extracted from documents"

\* str(e) of the exceptions that can escape into the handler of process_analysis
EXC_COMMIT == "OperationalError: database is locked"

EXC_SERVICES == "Failed to initialize AWS Bedrock client"

EXC_NOT_A_MAPPING == "'list' object has no attribute 'get'"

EXC_NOT_ITERABLE == "argument of type 'int' is not iterable"

EXC_NOT_SERIALIZABLE == "Object of type datetime is not JSON serializable"

(* ------------------------------------------------------------------ *)
(* Uploaded documents                                                   *)
(* ------------------------------------------------------------------ *)

\* the extensions of the uploaded file names, as the user typed them
UploadedExtensions == <<"xlsx", "pdf", "PDF">>

\* str.lower() on the extensions that occur
Lower(ext) ==
  CASE ext = "PDF" -> "pdf"
    [] ext = "XLSX" -> "xlsx"
    [] ext = "XLS" -> "xls"
    [] OTHER -> ext

\* validate_file: the lower-cased extension must be an allowed one
validate_file(ext) == Lower(ext) \in allowed_extensions

\* doc.filename.endswith(suffix), case-sensitive, on the file's extension
EndsWith(ext, suffix) == ("." \o ext) = suffix

ExtensionOf(d) == UploadedExtensions[((d - 1) % Len(UploadedExtensions)) + 1]

\* parsed_data["text"] of a PDF that extract_text_from_pdf could read
PdfText(d) == "pdf text " \o ToString(d)

\* json.dumps(parsed_data.get("sheets", []), indent=2)
ExcelText(d) == "[{\"name\": \"sheet " \o ToString(d) \o "\"}]"

(* ------------------------------------------------------------------ *)
(* JSON values                                                          *)
(* ------------------------------------------------------------------ *)

JDict(rec) == [type |-> "dict", value |-> rec]

JList(seq) == [type |-> "list", value |-> seq]

JNumber(n) == [type |-> "number", value |-> n]

IsDict(j) == j.type = "dict"

\* key in output, for a dict
HasKey(j, key) == IsDict(j) /\ key \in DOMAIN j.value

\* output.get(key, default)
DictGet(j, key, default) == IF key \in DOMAIN j.value THEN j.value[key] ELSE default

ErrorDict(msg) == JDict([error |-> msg])

\* a Python value that json.dumps cannot serialise
PY_OBJECT == [type |-> "object", value |-> "datetime"]

(* ------------------------------------------------------------------ *)
(* NovaClient.invoke_agent                                              *)
(* ------------------------------------------------------------------ *)

\* A reply text is a sequence of tokens: fences, whitespace, JSON bodies, prose.
\* A markdown fence (three backquotes) is written ~~~ in the token names.
FENCE_JSON == "~~~json"

FENCE == "~~~"

Whitespace == {" ", "\n"}

J_SCORE == "{\"loan_readiness_score\": 72}"

J_NO_SCORE == "{\"executive_summary\": \"ok\"}"

J_LIST == "[\"a\"]"

J_NUMBER == "42"

J_ERROR_KEY == "{\"error\": \"insufficient data\"}"

PROSE == "The cash position is improving."

\* an unclosed run of opening brackets, longer than the interpreter's recursion limit
J_DEEP == "[[[[[[[[ ... 1500 times"

EXC_RECURSION ==
  "maximum recursion depth exceeded while decoding a JSON array from a unicode string"

\* json.loads on the JSON bodies that occur
JsonBodies == {J_SCORE, J_NO_SCORE, J_LIST, J_NUMBER, J_ERROR_KEY}

JsonValue(tok) ==
  CASE tok = J_SCORE -> JDict([loan_readiness_score |-> 72])
    [] tok = J_NO_SCORE -> JDict([executive_summary |-> "ok"])
    [] tok = J_LIST -> JList(<<"a">>)
    [] tok = J_NUMBER -> JNumber(42)
    [] tok = J_ERROR_KEY -> JDict([error |-> "insufficient data"])

RECURSIVE lstrip(_)
lstrip(t) == IF t # <<>> /\ Head(t) \in Whitespace THEN lstrip(Tail(t)) ELSE t

RECURSIVE rstrip(_)
rstrip(t) ==
  IF t # <<>> /\ t[Len(t)] \in Whitespace THEN rstrip(SubSeq(t, 1, Len(t) - 1)) ELSE t

\* str.strip()
strip(t) == rstrip(lstrip(t))

\* cleaned_text[7:] when cleaned_text.startswith(FENCE_JSON)
StripJsonFence(t) == IF t # <<>> /\ Head(t) = FENCE_JSON THEN Tail(t) ELSE t

\* cleaned_text[3:] when cleaned_text.startswith(FENCE)
StripOpenFence(t) ==
  IF t # <<>> /\ Head(t) = FENCE THEN Tail(t)
  ELSE IF t # <<>> /\ Head(t) = FENCE_JSON THEN <<"json">> \o Tail(t)
  ELSE t

\* variant: the closing fence is left in place
StripCloseFenceKeeps(t) == t

\* cleaned_text[:-3] when cleaned_text.endswith(FENCE)
StripCloseFence(t) ==
  IF t # <<>> /\ t[Len(t)] = FENCE THEN SubSeq(t, 1, Len(t) - 1) ELSE t

\* the clean-up of the reply text before json.loads
cleaned_text(response_text) ==
  strip(StripCloseFence(StripOpenFence(StripJsonFence(strip(response_text)))))

\* json.loads succeeds on a text that is exactly one JSON body
JsonLoadsOk(t) == Len(t) = 1 /\ t[1] \in JsonBodies

\* json.loads leaves the scanner with RecursionError, which is not a
\* JSONDecodeError, when the nesting exceeds the recursion limit
JsonLoadsRecursionError(t) == Len(t) = 1 /\ t[1] = J_DEEP

\* the value invoke_agent returns for a provider reply
parsed_response(response_text) ==
  IF JsonLoadsOk(cleaned_text(response_text))
  THEN JsonValue(cleaned_text(response_text)[1])
  ELSE JDict([response |-> response_text, raw_text |-> TRUE])

\* outcomes of one client.converse call
Reply(text) == [kind |-> "reply", text |-> text, code |-> "", message |-> ""]

ClientError(code, message) ==
  [kind |-> "ClientError", text |-> <<>>, code |-> code, message |-> message]

OtherException(message) ==
  [kind |-> "Exception", text |-> <<>>, code |-> "", message |-> message]

TransientCodes == {"ThrottlingException", "ServiceUnavailableException"}

RECURSIVE Pow2(_)
Pow2(n) == IF n = 0 THEN 1 ELSE 2 * Pow2(n - 1)

\* what one invocation does to the outside, in order: a client.converse call
\* or a time.sleep(seconds)
Converse == [event |-> "converse", seconds |-> 0]

Sleep(seconds) == [event |-> "sleep", seconds |-> seconds]

\* return value: the value handed to the caller and the events that led to it
Return(value, trace) == [result |-> value, trace |-> trace]

RECURSIVE invoke_loop(_, _, _, _)

\* variant: the backoff grows by one second per attempt
OnClientErrorLinearBackoff(retries, script, attempt, trace) ==
  LET e == script[attempt + 1] IN
    IF attempt < retries - 1 /\ e.code \in TransientCodes
    THEN invoke_loop(retries, script, attempt + 1, Append(trace, Sleep((attempt + 1) * 1)))
    ELSE Return(ErrorDict(e.code \o ": " \o e.message), trace)

\* variant: every provider error is retried, whatever its code
OnClientErrorRetriesAnyCode(retries, script, attempt, trace) ==
  LET e == script[attempt + 1] IN
    IF attempt < retries - 1
    THEN invoke_loop(retries, script, attempt + 1, Append(trace, Sleep(Pow2(attempt) * 1)))
    ELSE Return(ErrorDict(e.code \o ": " \o e.message), trace)

\* lines 106-122: except ClientError at attempt, after the events in trace
OnClientError(retries, script, attempt, trace) ==
  LET e == script[attempt + 1] IN
    IF attempt < retries - 1 /\ e.code \in TransientCodes
    THEN invoke_loop(retries, script, attempt + 1, Append(trace, Sleep(Pow2(attempt) * 1)))
    ELSE Return(ErrorDict(e.code \o ": " \o e.message), trace)

\* an exception that leaves invoke_agent
Raised(message) == [type |-> "raise", value |-> message]

\* variant: the exception of the last attempt is raised again
OnExceptionReraisesLast(retries, script, attempt, trace, message) ==
  IF attempt < retries - 1
  THEN invoke_loop(retries, script, attempt + 1, Append(trace, Sleep(Pow2(attempt) * 1)))
  ELSE Return(Raised(message), trace)

\* lines 124-132: except Exception at attempt, after the events in trace;
\* message is str(e)
OnException(retries, script, attempt, trace, message) ==
  IF attempt < retries - 1
  THEN invoke_loop(retries, script, attempt + 1, Append(trace, Sleep(Pow2(attempt) * 1)))
  ELSE Return(ErrorDict("Failed to invoke model: " \o message), trace)

\* lines 81-104: a reply came back at attempt; an exception of json.loads other
\* than JSONDecodeError passes the inner except clause and reaches line 124
OnReply(retries, script, attempt, trace) ==
  LET response_text == script[attempt + 1].text IN
    IF JsonLoadsRecursionError(cleaned_text(response_text))
    THEN OnException(retries, script, attempt, trace, EXC_RECURSION)
    ELSE Return(parsed_response(response_text), trace)

\* the retry loop with settings.max_retries = retries, from attempt on:
\* script[attempt + 1] is the outcome of the client.converse call of that attempt
invoke_loop(retries, script, attempt, trace) ==
  IF attempt >= retries
  THEN Return(ErrorDict("Max retries exceeded"), trace)
  ELSE LET o == script[attempt + 1]
           called == Append(trace, Converse)
       IN CASE o.kind = "reply" -> OnReply(retries, script, attempt, called)
            [] o.kind = "ClientError" -> OnClientError(retries, script, attempt, called)
            [] o.kind = "Exception" ->
                 OnException(retries, script, attempt, called, o.message)

\* the converse calls made, and the seconds slept, in order
CallsOf(trace) == Len(SelectSeq(trace, LAMBDA ev : ev.event = "converse"))

SleepsOf(trace) ==
  LET slept == SelectSeq(trace, LAMBDA ev : ev.event = "sleep")
  IN [i \in 1..Len(slept) |-> slept[i].seconds]

\* invoke_agent under settings.max_retries = retries
invoke_agent_with(retries, script) ==
  LET r == invoke_loop(retries, script, 0, <<>>)
  IN [result |-> r.result, trace |-> r.trace,
      calls |-> CallsOf(r.trace), sleeps |-> SleepsOf(r.trace)]

invoke_agent(script) == invoke_agent_with(max_retries, script)

(* ------------------------------------------------------------------ *)
(* Agents                                                               *)
(* ------------------------------------------------------------------ *)

\* "error" in output raises TypeError on a value that is not a container
ValidateRaises(output) == output.type = "number"

\* BaseAgent._validate_output: False exactly when "error" is in the output
base_validate_output(output) ==
  CASE output.type = "dict" -> "error" \notin DOMAIN output.value
    [] output.type = "list" -> \A i \in 1..Len(output.value) : output.value[i] # "error"

\* the context slots that _build_prompt of agent k passes to json.dumps
PromptSlots(k) ==
  CASE k = 1 -> {}
    [] k = 2 -> {"financial_data"}
    [] k = 3 -> {"financial_data", "cashflow_data"}
    [] k = 4 -> {"financial_data"}
    [] k = 5 -> {"financial_data", "cashflow_data", "risk_data", "compliance_data"}

\* _build_prompt raises TypeError when json.dumps meets a value it cannot
\* serialise; a slot that is absent is read as {}. Agent 1 joins the labels and
\* slices the text, which are strings.
BuildPromptRaises(k, context) ==
  \E slot \in PromptSlots(k) \cap DOMAIN context : context[slot].type = "object"

\* milliseconds that one client.converse call takes
CONVERSE_MS == 250

\* int((time.time() - start_time) * 1000) for the events of an invocation
RECURSIVE ElapsedMs(_)
ElapsedMs(trace) ==
  IF trace = <<>> THEN 0
  ELSE (IF Head(trace).event = "sleep" THEN Head(trace).seconds * 1000 ELSE CONVERSE_MS)
       + ElapsedMs(Tail(trace))

\* what run_with_retry hands back and what it did: the returned pair (result,
\* execution_time_ms), the invoke_agent calls it made with the value of the
\* last one, and the provider calls inside them
AgentReturn(result, execution_time_ms, invocations, invoked, calls) ==
  [result |-> result, execution_time_ms |-> execution_time_ms,
   invocations |-> invocations, invoked |-> invoked, calls |-> calls]

\* variant: an error-bearing mapping makes the agent invoke the model once more
run_with_retry_again(k, context, script) ==
  LET inv == invoke_agent(script) IN
    IF HasKey(inv.result, "error")
    THEN AgentReturn(invoke_agent(script).result, 2 * ElapsedMs(inv.trace), 2,
                     <<inv.result>>, 2 * inv.calls)
    ELSE AgentReturn(inv.result, ElapsedMs(inv.trace), 1, <<inv.result>>, inv.calls)

\* variant: the prompt is built before the try block
run_with_retry_unguarded_prompt(k, context, script) ==
  LET inv == invoke_agent(script) IN
    IF BuildPromptRaises(k, context)
    THEN AgentReturn(Raised(EXC_NOT_SERIALIZABLE), 0, 0, <<>>, 0)
    ELSE AgentReturn(inv.result, ElapsedMs(inv.trace), 1, <<inv.result>>, inv.calls)

\* run_with_retry: the validator's verdict is only logged; an exception of the
\* prompt construction or of the validator is turned into an error mapping
run_with_retry(k, context, script) ==
  LET inv == invoke_agent(script) IN
    IF BuildPromptRaises(k, context)
    THEN AgentReturn(ErrorDict(EXC_NOT_SERIALIZABLE), 0, 0, <<>>, 0)
    ELSE IF ValidateRaises(inv.result)
    THEN AgentReturn(ErrorDict(EXC_NOT_ITERABLE), ElapsedMs(inv.trace), 1,
                     <<inv.result>>, inv.calls)
    ELSE AgentReturn(inv.result, ElapsedMs(inv.trace), 1, <<inv.result>>, inv.calls)

\* execute of agent k: returns the result and drops the measured time
execute(k, context, script) == run_with_retry(k, context, script).result

\* the same outcome at every attempt
Always(o) == [i \in 1..max_retries |-> o]

\* provider behaviours exercised by the pipeline at stage k
StageScripts(k) ==
  IF k = NumStages
  THEN {Always(Reply(<<J_SCORE>>)), Always(Reply(<<J_NO_SCORE>>)),
        Always(ClientError("ThrottlingException", "Too many requests")),
        Always(Reply(<<J_LIST>>))}
  ELSE {Always(Reply(<<FENCE_JSON, "\n", J_NO_SCORE, "\n", FENCE>>)),
        Always(ClientError("ThrottlingException", "Too many requests"))}

(* ------------------------------------------------------------------ *)
(* State                                                                *)
(* ------------------------------------------------------------------ *)

VARIABLES
  documents,          \* documents table (and the uploaded file of each row)
  analyses,           \* analyses table
  analysis_documents, \* analysis_documents table
  agent_results,      \* agent_results table, per analysis in insertion order
  reports,            \* reports table, per analysis
  vector_store,       \* entries of the vector store collection
  pc,                 \* position of the background task of each analysis
  task,               \* local variables of process_analysis, per analysis
  hist,               \* what the task of each analysis has done so far
  request,            \* the get_analysis request in flight
  response,           \* the last response of get_analysis
  nova,               \* one invoke_agent call on its own: settings, provider, return
  agent               \* one agent.execute call on its own: agent, context, provider, return

vars ==
  <<documents, analyses, analysis_documents, agent_results, reports, vector_store,
    pc, task, hist, request, response, nova, agent>>

None == "None"

NoContext == [none |-> TRUE]

\* the owner of the uploaded documents: every fourth upload is u2's, the others are u1's
OwnerOf(d) == IF d % 4 = 0 THEN "u2" ELSE "u1"

\* Document.document_type is nullable: every second upload gave one
DocumentTypeOf(d) == IF d % 2 = 0 THEN "bank_statement" ELSE None

NoAnalysis == [status |-> "none", user_id |-> None, error_message |-> None, completed_at |-> FALSE]

NoTask ==
  [document_ids |-> {}, documents |-> <<>>, idx |-> 1, all_text |-> <<>>,
   doc_types |-> <<>>, dirty |-> {}, results |-> <<>>, context |-> NoContext, exc |-> None]

NoHist ==
  [executed |-> <<>>, yielded |-> <<>>, indexed |-> <<>>, raised |-> FALSE, calls |-> 0,
   invocations |-> 0, invoked |-> <<>>, measured |-> <<>>,
   at_raise |-> [executed |-> <<>>, persisted |-> <<>>]]

NoRequest == [pc |-> "idle", user |-> None, analysis_id |-> None, status |-> None, completed_at |-> FALSE]

NoResponse ==
  [code |-> 0, analysis_id |-> None, user_id |-> None, status |-> None,
   completed_at |-> FALSE, report |-> <<>>]

\* no invoke_agent call is observed on its own
NoInvocation == [pc |-> "idle", max_retries |-> max_retries, script |-> <<>>, out |-> <<>>]

\* no agent.execute call is observed on its own
NoExecution == [pc |-> "idle", k |-> 1, context |-> NoContext, script |-> <<>>, out |-> <<>>]

\* the tables after the uploads, owner[d] being the user who uploaded document d
InitStore(owner) ==
  /\ documents = [d \in DocIds |->
                    [present |-> TRUE, user_id |-> owner[d], ext |-> ExtensionOf(d),
                     document_type |-> DocumentTypeOf(d), file |-> TRUE,
                     processed |-> FALSE]]
  /\ \A d \in DocIds : validate_file(documents[d].ext)
  /\ analyses = [a \in AnalysisIds |-> NoAnalysis]
  /\ analysis_documents = [a \in AnalysisIds |-> {}]
  /\ agent_results = [a \in AnalysisIds |-> <<>>]
  /\ reports = [a \in AnalysisIds |-> <<>>]
  /\ vector_store = {}
  /\ pc = [a \in AnalysisIds |-> "idle"]
  /\ task = [a \in AnalysisIds |-> NoTask]
  /\ hist = [a \in AnalysisIds |-> NoHist]
  /\ request = NoRequest
  /\ response = NoResponse

Init ==
  /\ InitStore([d \in DocIds |-> OwnerOf(d)])
  /\ nova = NoInvocation
  /\ agent = NoExecution

(* ------------------------------------------------------------------ *)
(* Request handlers                                                     *)
(* ------------------------------------------------------------------ *)

\* rows of a query come back in primary-key order
RECURSIVE SetToSeq(_)
SetToSeq(S) ==
  IF S = {} THEN <<>>
  ELSE LET m == CHOOSE x \in S : \A y \in S : x <= y IN <<m>> \o SetToSeq(S \ {m})

\* variant: the query of the check does not filter by user
OwnedDocumentsAnyUser(u, document_ids) == {d \in document_ids : documents[d].present}

\* lines 265-269: the rows among document_ids that belong to user u
OwnedDocuments(u, document_ids) ==
  {d \in document_ids : documents[d].present /\ documents[d].user_id = u}

\* POST /api/analysis/run by user u with data.document_ids = ids
run_analysis(u, ids, a) ==
  LET document_ids ==
        IF ids = {}
        THEN {d \in DocIds : documents[d].present /\ documents[d].user_id = u}
        ELSE ids
  IN /\ analyses[a].status = "none"
     /\ document_ids # {}
     /\ Cardinality(OwnedDocuments(u, document_ids)) = Cardinality(document_ids)
     /\ analyses' = [analyses EXCEPT ![a] =
                       [status |-> "processing", user_id |-> u,
                        error_message |-> None, completed_at |-> FALSE]]
     /\ analysis_documents' = [analysis_documents EXCEPT ![a] = document_ids]
     /\ task' = [task EXCEPT ![a] = [NoTask EXCEPT !.document_ids = document_ids]]
     /\ pc' = [pc EXCEPT ![a] = "start"]
     /\ UNCHANGED <<documents, agent_results, reports, vector_store, hist, request, response>>

\* DELETE /api/documents/{d} by user u: removes the file and the row
delete_document(u, d) ==
  /\ Cardinality({x \in DocIds : ~documents[x].present}) < MaxDeletes
  /\ documents[d].present
  /\ documents[d].user_id = u
  /\ documents' = [documents EXCEPT ![d].present = FALSE, ![d].file = FALSE]
  /\ UNCHANGED <<analyses, analysis_documents, agent_results, reports, vector_store,
                 pc, task, hist, request, response>>

\* GET /api/analysis/{a} by user u, up to the read of the analysis row
get_analysis(u, a) ==
  /\ request.pc = "idle"
  /\ IF analyses[a].status = "none"
     THEN /\ response' = [NoResponse EXCEPT !.code = 404]
          /\ request' = NoRequest
     ELSE IF analyses[a].user_id # u
     THEN /\ response' = [NoResponse EXCEPT !.code = 403]
          /\ request' = NoRequest
     ELSE IF analyses[a].status = "completed"
     THEN /\ response' = NoResponse
          /\ request' = [pc |-> "report", user |-> u, analysis_id |-> a,
                         status |-> analyses[a].status,
                         completed_at |-> analyses[a].completed_at]
     ELSE /\ response' = [code |-> 200, analysis_id |-> a, user_id |-> analyses[a].user_id,
                          status |-> analyses[a].status,
                          completed_at |-> analyses[a].completed_at, report |-> <<>>]
          /\ request' = NoRequest
  /\ UNCHANGED <<documents, analyses, analysis_documents, agent_results, reports,
                 vector_store, pc, task, hist>>

\* get_analysis, from the read of the report row to the response
get_analysis_report ==
  /\ request.pc = "report"
  /\ response' = [code |-> 200, analysis_id |-> request.analysis_id,
                  user_id |-> request.user, status |-> request.status,
                  completed_at |-> request.completed_at,
                  report |-> IF reports[request.analysis_id] # <<>>
                             THEN <<reports[request.analysis_id][1]>> ELSE <<>>]
  /\ request' = NoRequest
  /\ UNCHANGED <<documents, analyses, analysis_documents, agent_results, reports,
                 vector_store, pc, task, hist>>

(* ------------------------------------------------------------------ *)
(* process_analysis                                                     *)
(* ------------------------------------------------------------------ *)

\* an exception with message msg reaches the except clause of process_analysis;
\* the pending changes of the session are lost
RaiseWith(a, msg, t) ==
  /\ pc' = [pc EXCEPT ![a] = "handler"]
  /\ task' = [task EXCEPT ![a] = [t EXCEPT !.exc = msg, !.dirty = {}]]
  /\ hist' = [hist EXCEPT ![a].raised = TRUE,
                          ![a].at_raise = [executed |-> hist[a].executed,
                                           persisted |-> agent_results[a]]]

Raise(a, msg) == RaiseWith(a, msg, task[a])

\* variant: the failure is written to every run that is still processing
MarkFailedEveryRun(a, msg) ==
  analyses' = [b \in DOMAIN analyses |->
                 IF b = a \/ analyses[b].status = "processing"
                 THEN [analyses[b] EXCEPT !.status = "failed", !.error_message = msg]
                 ELSE analyses[b]]

\* analysis.status = "failed"; analysis.error_message = msg; db.commit()
MarkFailed(a, msg) ==
  analyses' = [analyses EXCEPT ![a].status = "failed", ![a].error_message = msg]

\* variant: the empty document set is not detected
NoDocumentsNever(docs) == FALSE

\* line 57: if not documents
NoDocuments(docs) == docs = <<>>

\* lines 45-65: load the analysis, resolve the documents, create the services
StartTask(a) ==
  /\ pc[a] = "start"
  /\ LET docs == SetToSeq({d \in task[a].document_ids : documents[d].present})
         t == [task[a] EXCEPT !.documents = docs, !.idx = 1]
     IN IF NoDocuments(docs)
        THEN \/ /\ MarkFailed(a, ERR_NO_DOCUMENTS)
                /\ pc' = [pc EXCEPT ![a] = "done"]
                /\ task' = [task EXCEPT ![a] = t]
                /\ UNCHANGED hist
             \/ /\ RaiseWith(a, EXC_COMMIT, t)
                /\ UNCHANGED analyses
        ELSE /\ UNCHANGED analyses
             /\ \/ /\ task' = [task EXCEPT ![a] = t]
                   /\ pc' = [pc EXCEPT ![a] = "doc_loop"]
                   /\ UNCHANGED hist
                \/ RaiseWith(a, EXC_SERVICES, t)
  /\ UNCHANGED <<documents, analysis_documents, agent_results, reports, vector_store,
                 request, response>>

\* doc.document_type or "financial_document"
TypeLabel(d) ==
  IF documents[d].document_type = None THEN "financial_document"
  ELSE documents[d].document_type

\* VectorStore.add_document: no chunks for an empty text, nothing added when no
\* embedding could be generated (embedded = FALSE) or the id is already there
add_document(store, document_id, text, metadata, embedded) ==
  IF text = "" \/ ~embedded \/ (\E e \in store : e.document_id = document_id)
  THEN store
  ELSE store \cup {[document_id |-> document_id, text |-> text, metadata |-> metadata]}

\* whether generate_embeddings returned a vector for the chunks of a text
EmbeddingOutcomes == {TRUE}

\* lines 101-107: label, processed flag, vector store; all_text is the list after
\* the branch for this document
FinishDocument(a, d, all_text, embedded, yields) ==
  LET text == IF all_text # <<>> THEN all_text[Len(all_text)] ELSE "" IN
    /\ task' = [task EXCEPT ![a].idx = @ + 1,
                            ![a].all_text = all_text,
                            ![a].doc_types = Append(@, TypeLabel(d)),
                            ![a].dirty = @ \cup {d}]
    /\ vector_store' =
         add_document(vector_store, d, text,
                      [document_id |-> d, user_id |-> documents[d].user_id,
                       filename |-> documents[d].ext],
                      embedded)
    /\ hist' = [hist EXCEPT ![a].yielded = IF yields THEN Append(@, d) ELSE @,
                            ![a].indexed = Append(@, [document_id |-> d, text |-> text])]

\* variant: a skipped document still contributes parsed_data.get("text", "")
SkipDocumentKeepsText(a) ==
  /\ task' = [task EXCEPT ![a].idx = @ + 1, ![a].all_text = Append(@, "")]
  /\ UNCHANGED <<vector_store, hist>>

\* continue, or an exception caught by the except clause of the loop body
SkipDocument(a) ==
  /\ task' = [task EXCEPT ![a].idx = @ + 1]
  /\ UNCHANGED <<vector_store, hist>>

\* lines 71-110: one iteration of the loop over the resolved documents
ProcessDocument(a) ==
  /\ pc[a] = "doc_loop"
  /\ task[a].idx <= Len(task[a].documents)
  /\ LET d == task[a].documents[task[a].idx]
         ext == documents[d].ext
     IN IF ~documents[d].file
        THEN SkipDocument(a)
        ELSE IF EndsWith(ext, ".pdf")
        THEN \E parsed \in {"text", "error", "none"}, embedded \in EmbeddingOutcomes :
               IF parsed = "text"
               THEN FinishDocument(a, d, Append(task[a].all_text, PdfText(d)), embedded, TRUE)
               ELSE SkipDocument(a)
        ELSE IF EndsWith(ext, ".xlsx") \/ EndsWith(ext, ".xls")
        THEN \E parsed \in {"sheets", "error", "unserializable"}, embedded \in EmbeddingOutcomes :
               IF parsed = "sheets"
               THEN FinishDocument(a, d, Append(task[a].all_text, ExcelText(d)), embedded, TRUE)
               ELSE SkipDocument(a)
        ELSE \E embedded \in EmbeddingOutcomes :
               FinishDocument(a, d, task[a].all_text, embedded, FALSE)
  /\ UNCHANGED <<documents, analyses, analysis_documents, agent_results, reports,
                 pc, request, response>>

\* variant: the emptiness test looks at the label list
NoTextByLabels(t) == t.doc_types = <<>>

\* line 114: if not all_text
NoText(t) == t.all_text = <<>>

\* lines 112-118: commit the document updates, then test all_text
CommitDocuments(a) ==
  /\ pc[a] = "doc_loop"
  /\ task[a].idx > Len(task[a].documents)
  /\ \/ /\ \A d \in task[a].dirty : documents[d].present
        /\ documents' = [d \in DocIds |->
                           IF d \in task[a].dirty
                           THEN [documents[d] EXCEPT !.processed = TRUE]
                           ELSE documents[d]]
        /\ task' = [task EXCEPT ![a].dirty = {}]
        /\ pc' = [pc EXCEPT ![a] = IF NoText(task[a]) THEN "fail_no_text" ELSE "execute"]
        /\ UNCHANGED hist
     \/ /\ Raise(a, EXC_COMMIT)
        /\ UNCHANGED documents
  /\ UNCHANGED <<analyses, analysis_documents, agent_results, reports, vector_store,
                 request, response>>

\* lines 114-118: no text was accumulated
FailNoText(a) ==
  /\ pc[a] = "fail_no_text"
  /\ \/ /\ MarkFailed(a, ERR_NO_TEXT)
        /\ pc' = [pc EXCEPT ![a] = "done"]
        /\ UNCHANGED <<task, hist>>
     \/ /\ Raise(a, EXC_COMMIT)
        /\ UNCHANGED analyses
  /\ UNCHANGED <<documents, analysis_documents, agent_results, reports, vector_store,
                 request, response>>

\* "\n\n".join(all_text)
RECURSIVE Join(_)
Join(texts) ==
  IF texts = <<>> THEN ""
  ELSE IF Len(texts) = 1 THEN texts[1]
  ELSE texts[1] \o "\n\n" \o Join(Tail(texts))

\* variant: stage 4 is also handed the cash flow forecast
ContextWithForecast(k, t) ==
  CASE k = 1 -> [documents_text |-> Join(t.all_text), document_types |-> t.doc_types]
    [] k = 2 -> [financial_data |-> t.results[1]]
    [] k = 3 -> [financial_data |-> t.results[1], cashflow_data |-> t.results[2]]
    [] k = 4 -> [financial_data |-> t.results[1], cashflow_data |-> t.results[2]]
    [] k = 5 -> [financial_data |-> t.results[1], cashflow_data |-> t.results[2],
                 risk_data |-> t.results[3], compliance_data |-> t.results[4]]

\* context1 .. context5 built from the local variables of the task
Context(k, t) ==
  CASE k = 1 -> [documents_text |-> Join(t.all_text), document_types |-> t.doc_types]
    [] k = 2 -> [financial_data |-> t.results[1]]
    [] k = 3 -> [financial_data |-> t.results[1], cashflow_data |-> t.results[2]]
    [] k = 4 -> [financial_data |-> t.results[1]]
    [] k = 5 -> [financial_data |-> t.results[1], cashflow_data |-> t.results[2],
                 risk_data |-> t.results[3], compliance_data |-> t.results[4]]

\* result_k = agent_k.execute(context_k)
ExecuteAgent(a) ==
  /\ pc[a] = "execute"
  /\ LET k == Len(task[a].results) + 1
         context == Context(k, task[a])
     IN \E script \in StageScripts(k) :
          LET ran == run_with_retry(k, context, script) IN
            /\ task' = [task EXCEPT ![a].results = Append(@, execute(k, context, script)),
                                    ![a].context = context]
            /\ hist' = [hist EXCEPT ![a].executed = Append(@, k),
                                    ![a].calls = @ + ran.calls,
                                    ![a].invocations = @ + ran.invocations,
                                    ![a].invoked = Append(@, ran.invoked),
                                    ![a].measured = Append(@, ran.execution_time_ms)]
  /\ pc' = [pc EXCEPT ![a] = "persist"]
  /\ UNCHANGED <<documents, analyses, analysis_documents, agent_results, reports,
                 vector_store, request, response>>

\* variant: every stage result is stored under the first agent's name
AgentResultFirstAgent(a, k, result) ==
  [analysis_id |-> a, agent_name |-> AgentNames[1], result_data |-> result,
   execution_time_ms |-> STORED_EXECUTION_TIME_MS]

\* models.AgentResult(...) for stage k
AgentResult(a, k, result) ==
  [analysis_id |-> a, agent_name |-> AgentNames[k], result_data |-> result,
   execution_time_ms |-> STORED_EXECUTION_TIME_MS]

\* variant: an error-bearing result ends the run as a failure
AfterPersistAbortsOnError(a, k) ==
  IF HasKey(task[a].results[k], "error") THEN "fail_no_text"
  ELSE IF k < NumStages THEN "execute" ELSE "report"

\* where the task goes after the commit of stage k's result
AfterPersist(a, k) == IF k < NumStages THEN "execute" ELSE "report"

\* variant: the stage result is added to the session without a commit
StageResultsUncommitted(a, k) == agent_results[a]

\* the stage results of a in the store after db.add(agent_result_k); db.commit()
StageResultsCommitted(a, k) ==
  Append(agent_results[a], AgentResult(a, k, task[a].results[k]))

\* db.add(agent_result_k); db.commit()
PersistResult(a) ==
  /\ pc[a] = "persist"
  /\ LET k == Len(task[a].results) IN
       \/ /\ agent_results' = [agent_results EXCEPT ![a] = StageResultsCommitted(a, k)]
          /\ pc' = [pc EXCEPT ![a] = AfterPersist(a, k)]
          /\ UNCHANGED <<task, hist>>
       \/ /\ Raise(a, EXC_COMMIT)
          /\ UNCHANGED agent_results
  /\ UNCHANGED <<documents, analyses, analysis_documents, reports, vector_store,
                 request, response>>

\* variant: the score section is always the default
report_data_default_score(results) ==
  [section_1_financial_health |-> results[1],
   section_2_cash_flow_forecast |-> results[2],
   section_3_risk_alerts |-> results[3],
   section_4_compliance_automation |-> results[4],
   section_5_loan_readiness_score |-> DEFAULT_SCORE,
   section_6_recommended_actions |-> results[5]]

\* lines 192-199: the six sections of the report
report_data(results) ==
  [section_1_financial_health |-> results[1],
   section_2_cash_flow_forecast |-> results[2],
   section_3_risk_alerts |-> results[3],
   section_4_compliance_automation |-> results[4],
   section_5_loan_readiness_score |-> DictGet(results[5], "loan_readiness_score", DEFAULT_SCORE),
   section_6_recommended_actions |-> results[5]]

\* variant: something after the commit raises, so the handler runs on a completed run
CommitReportThenRaise(a, results) ==
  /\ reports[a] = <<>>
  /\ reports' = [reports EXCEPT ![a] = Append(@, report_data(results))]
  /\ analyses' = [analyses EXCEPT ![a].status = "completed", ![a].completed_at = TRUE]
  /\ Raise(a, "logging failed")

\* variant: the report is committed on its own and the status update then fails
CommitReportBeforeStatus(a, results) ==
  /\ reports[a] = <<>>
  /\ reports' = [reports EXCEPT ![a] = Append(@, report_data(results))]
  /\ UNCHANGED analyses
  /\ Raise(a, EXC_COMMIT)

\* variant: the completed status is committed without the report row
CommitStatusWithoutReport(a, results) ==
  /\ reports[a] = <<>>
  /\ UNCHANGED reports
  /\ analyses' = [analyses EXCEPT ![a].status = "completed", ![a].completed_at = TRUE]
  /\ pc' = [pc EXCEPT ![a] = "done"]
  /\ UNCHANGED <<task, hist>>

\* lines 201-210: the report row and the completed status, in one commit
CommitReport(a, results) ==
  /\ reports[a] = <<>>
  /\ reports' = [reports EXCEPT ![a] = Append(@, report_data(results))]
  /\ analyses' = [analyses EXCEPT ![a].status = "completed", ![a].completed_at = TRUE]
  /\ pc' = [pc EXCEPT ![a] = "done"]
  /\ UNCHANGED <<task, hist>>

\* lines 191-212: aggregate the report and complete the analysis
CompleteAnalysis(a) ==
  /\ pc[a] = "report"
  /\ IF ~IsDict(task[a].results[NumStages])
     THEN /\ Raise(a, EXC_NOT_A_MAPPING)
          /\ UNCHANGED <<reports, analyses>>
     ELSE \/ CommitReport(a, task[a].results)
          \/ /\ Raise(a, EXC_COMMIT)
             /\ UNCHANGED <<reports, analyses>>
  /\ UNCHANGED <<documents, analysis_documents, agent_results, vector_store,
                 request, response>>

\* lines 214-225: the except clause; its own query or commit can raise, and
\* then the exception leaves the task with the run's row as it was
Handler(a) ==
  /\ pc[a] = "handler"
  /\ \/ /\ MarkFailed(a, task[a].exc)
        /\ pc' = [pc EXCEPT ![a] = "done"]
     \/ /\ pc' = [pc EXCEPT ![a] = "crashed"]
        /\ UNCHANGED analyses
  /\ UNCHANGED <<documents, analysis_documents, agent_results, reports, vector_store,
                 task, hist, request, response>>

process_analysis(a) ==
  \/ StartTask(a)
  \/ ProcessDocument(a)
  \/ CommitDocuments(a)
  \/ FailNoText(a)
  \/ ExecuteAgent(a)
  \/ PersistResult(a)
  \/ CompleteAnalysis(a)
  \/ Handler(a)

Next ==
  \/ \E u \in Users, ids \in SUBSET DocIds, a \in DOMAIN analyses :
       run_analysis(u, ids, a) /\ UNCHANGED <<nova, agent>>
  \/ \E u \in Users, d \in DocIds : delete_document(u, d) /\ UNCHANGED <<nova, agent>>
  \/ \E u \in Users, a \in DOMAIN analyses : get_analysis(u, a) /\ UNCHANGED <<nova, agent>>
  \/ get_analysis_report /\ UNCHANGED <<nova, agent>>
  \/ \E a \in DOMAIN analyses : process_analysis(a) /\ UNCHANGED <<nova, agent>>

Spec == Init /\ [][Next]_vars

(* ------------------------------------------------------------------ *)
(* One invoke_agent call against a scripted provider                    *)
(* ------------------------------------------------------------------ *)

\* largest value of settings.max_retries that is tried
MaxRetriesSetting == 4

\* the ways in which one client.converse call fails
Failures ==
  {ClientError("ThrottlingException", "Too many requests"),
   ClientError("ServiceUnavailableException", "Service unavailable"),
   ClientError("ValidationException", "Malformed input request"),
   OtherException("Connection reset by peer")}

\* optional whitespace around a fence or a body
Padding == {<<>>, <<"\n">>}

\* body inside an opening fence and a closing fence
Wrapped(open, body) ==
  {a \o <<open>> \o b \o <<body>> \o c \o <<FENCE>> \o d : a, b, c, d \in Padding}

FencedForms(body) == Wrapped(FENCE_JSON, body) \cup Wrapped(FENCE, body)

BareForms(body) == {a \o <<body>> \o d : a, d \in Padding}

\* reply texts that are not JSON, with or without a fence
NonJsonTexts ==
  {<<PROSE>>, <<" ", PROSE, "\n">>, <<FENCE_JSON, "\n", PROSE, "\n", FENCE>>,
   <<PROSE, "\n", J_SCORE>>, <<>>, <<J_DEEP>>}

ReplyTexts ==
  UNION {FencedForms(body) \cup BareForms(body) : body \in JsonBodies} \cup NonJsonTexts

\* the provider fails m times as fs says, then replies with text, and would
\* be throttled from then on
ScriptOf(fs, text, retries) ==
  [i \in 1..retries |->
     IF i <= Len(fs) THEN fs[i]
     ELSE IF i = Len(fs) + 1 THEN Reply(text)
     ELSE ClientError("ThrottlingException", "Too many requests")]

\* an invoke_agent call about to start
Invocation(retries, script) ==
  [pc |-> "ready", max_retries |-> retries, script |-> script, out |-> <<>>]

\* settings.max_retries is any value up to the bound; the provider fails at
\* every call, or replies after fewer failures than calls are allowed
InitInvoker ==
  /\ InitStore([d \in DocIds |-> OwnerOf(d)])
  /\ \E retries \in 0..MaxRetriesSetting :
       \/ \E fs \in [1..retries -> Failures] : nova = Invocation(retries, fs)
       \/ \E m \in 0..(retries - 1) :
            \E fs \in [1..m -> Failures], text \in ReplyTexts :
              nova = Invocation(retries, ScriptOf(fs, text, retries))
  /\ agent = NoExecution

\* nova_client.invoke_agent(prompt, system_prompt, ...) runs to its return
InvokeAgent ==
  /\ nova.pc = "ready"
  /\ nova' = [nova EXCEPT !.pc = "returned",
                          !.out = invoke_agent_with(nova.max_retries, nova.script)]
  /\ UNCHANGED <<documents, analyses, analysis_documents, agent_results, reports,
                 vector_store, pc, task, hist, request, response, agent>>

NextInvoker == InvokeAgent

SpecInvoker == InitInvoker /\ [][NextInvoker]_vars

(* ------------------------------------------------------------------ *)
(* One agent.execute call on a context and a scripted provider          *)
(* ------------------------------------------------------------------ *)

\* values that a context slot can hold: outputs of earlier agents and a value
\* that json.dumps rejects
SlotValues == {JDict([executive_summary |-> "ok"]), ErrorDict("insufficient data"), PY_OBJECT}

\* the contexts handed to agent k: the slots its prompt reads, or none of them
ContextsOf(k) ==
  IF k = 1
  THEN {[documents_text |-> PdfText(1), document_types |-> <<"financial_document">>],
        NoContext}
  ELSE [PromptSlots(k) -> SlotValues] \cup {NoContext}

\* the provider gives the same outcome at every attempt: a reply with one of the
\* JSON bodies or with prose, a throttling error, a connection error
AgentScripts ==
  {Always(Reply(<<body>>)) : body \in JsonBodies \cup {PROSE}}
    \cup {Always(ClientError("ThrottlingException", "Too many requests")),
          Always(OtherException("Connection reset by peer"))}

\* an agent.execute call about to start
Execution(k, context, script) ==
  [pc |-> "ready", k |-> k, context |-> context, script |-> script, out |-> <<>>]

InitAgent ==
  /\ InitStore([d \in DocIds |-> OwnerOf(d)])
  /\ nova = NoInvocation
  /\ \E k \in 1..NumStages :
       \E context \in ContextsOf(k), script \in AgentScripts :
         agent = Execution(k, context, script)

\* agent_k.execute(context) runs to its return
Execute ==
  /\ agent.pc = "ready"
  /\ agent' = [agent EXCEPT !.pc = "returned",
                            !.out = run_with_retry(agent.k, agent.context, agent.script)]
  /\ UNCHANGED <<documents, analyses, analysis_documents, agent_results, reports,
                 vector_store, pc, task, hist, request, response, nova>>

NextAgent == Execute

SpecAgent == InitAgent /\ [][NextAgent]_vars

(* ------------------------------------------------------------------ *)
(* The background tasks of two runs, interleaved                        *)
(* ------------------------------------------------------------------ *)

\* two runs that POST /api/analysis/run created, with their background tasks
\* scheduled; they share a document
TwoRuns == {"a1", "a2"}

\* the owner and the documents of each of the two runs
TwoRunsUser(a) == "u1"

TwoRunsDocuments(a) == {1}

InitTwoRuns ==
  /\ documents = [d \in DocIds |->
                    [present |-> TRUE, user_id |-> OwnerOf(d), ext |-> ExtensionOf(d),
                     document_type |-> DocumentTypeOf(d), file |-> TRUE,
                     processed |-> FALSE]]
  /\ \A a \in TwoRuns : \A d \in TwoRunsDocuments(a) : OwnerOf(d) = TwoRunsUser(a)
  /\ analyses = [a \in TwoRuns |->
                   [status |-> "processing", user_id |-> TwoRunsUser(a),
                    error_message |-> None, completed_at |-> FALSE]]
  /\ analysis_documents = [a \in TwoRuns |-> TwoRunsDocuments(a)]
  /\ agent_results = [a \in TwoRuns |-> <<>>]
  /\ reports = [a \in TwoRuns |-> <<>>]
  /\ vector_store = {}
  /\ pc = [a \in TwoRuns |-> "start"]
  /\ task = [a \in TwoRuns |-> [NoTask EXCEPT !.document_ids = TwoRunsDocuments(a)]]
  /\ hist = [a \in TwoRuns |-> NoHist]
  /\ request = NoRequest
  /\ response = NoResponse
  /\ nova = NoInvocation
  /\ agent = NoExecution

\* the event loop runs a step of either task
NextTwoRuns == \E a \in DOMAIN analyses : process_analysis(a) /\ UNCHANGED <<nova, agent>>

SpecTwoRuns == InitTwoRuns /\ [][NextTwoRuns]_vars

(* ------------------------------------------------------------------ *)
(* Requests of two users who both uploaded documents                    *)
(* ------------------------------------------------------------------ *)

\* the uploads alternate between the two users
AlternateOwnerOf(d) == IF d % 2 = 1 THEN "u2" ELSE "u1"

InitOwners ==
  /\ InitStore([d \in DocIds |-> AlternateOwnerOf(d)])
  /\ nova = NoInvocation
  /\ agent = NoExecution

SpecOwners == InitOwners /\ [][Next]_vars

(* ------------------------------------------------------------------ *)
(* Properties                                                           *)
(* ------------------------------------------------------------------ *)

Runs == DOMAIN pc

\* the background task of a has resolved its documents
Started(a) == pc[a] \notin {"idle", "start"}

\* the background task of a has ended, by returning or by an escaping exception
Ended(a) == pc[a] \in {"done", "crashed"}

\* processing stands for the spec's pending / running
StatusRank(status) ==
  CASE status = "none" -> 0
    [] status = "processing" -> 1
    [] status \in {"completed", "failed"} -> 2

\* C1: the persisted status of every run only moves forward (none, processing,
\* then completed or failed) and a completed or failed status never changes again.
C1_StatusOnlyMovesForward ==
  [][\A a \in Runs :
       /\ StatusRank(analyses'[a].status) >= StatusRank(analyses[a].status)
       /\ analyses[a].status \in {"completed", "failed"}
            => analyses'[a].status = analyses[a].status]_vars

\* a run that the handler marked failed, with the task over
C1_Witness ==
  \E a \in Runs : pc[a] = "done" /\ hist[a].raised /\ analyses[a].status = "failed"

\* the report section that holds the output of stage k
SectionOfStage(report, k) ==
  CASE k = 1 -> report.section_1_financial_health
    [] k = 2 -> report.section_2_cash_flow_forecast
    [] k = 3 -> report.section_3_risk_alerts
    [] k = 4 -> report.section_4_compliance_automation
    [] k = 5 -> report.section_6_recommended_actions

\* C2: when a stage returned an error-bearing mapping and no exception was raised,
\* the ended run has executed all five stages in order, persisted five Stage
\* Results, is completed, and its report carries the error mapping of that stage.
C2_SoftFailureDoesNotAbort ==
  \A a \in Runs :
    (/\ Ended(a)
     /\ ~hist[a].raised
     /\ \E k \in 1..Len(task[a].results) : HasKey(task[a].results[k], "error"))
    => /\ hist[a].executed = <<1, 2, 3, 4, 5>>
       /\ Len(agent_results[a]) = NumStages
       /\ analyses[a].status = "completed"
       /\ Len(reports[a]) = 1
       /\ \A k \in 1..NumStages :
            HasKey(task[a].results[k], "error")
              => /\ agent_results[a][k].result_data = task[a].results[k]
                 /\ SectionOfStage(reports[a][1], k) = task[a].results[k]

\* a completed run whose stage 3 failed softly while stage 4 did not
C2_Witness ==
  \E a \in Runs :
    /\ pc[a] = "done" /\ ~hist[a].raised /\ analyses[a].status = "completed"
    /\ HasKey(agent_results[a][3].result_data, "error")
    /\ ~HasKey(agent_results[a][4].result_data, "error")

\* C3: when an exception escaped inside process_analysis after document
\* resolution, the ended run is failed with the exception's message, no stage
\* was executed after the exception, and the Stage Results persisted before it
\* are unchanged.
C3_ExceptionFailsRun ==
  \A a \in Runs :
    (Ended(a) /\ hist[a].raised)
    => /\ analyses[a].status = "failed"
       /\ analyses[a].error_message = task[a].exc
       /\ hist[a].executed = hist[a].at_raise.executed
       /\ agent_results[a] = hist[a].at_raise.persisted

\* C4: a run has at most one Report, and only when its five Stage Results are
\* persisted and its status is completed.
C4_ReportOnlyWhenCompleted ==
  \A a \in Runs :
    /\ Len(reports[a]) <= 1
    /\ reports[a] # <<>>
         => /\ Len(agent_results[a]) = NumStages
            /\ \A k \in 1..NumStages : agent_results[a][k].agent_name = AgentNames[k]
            /\ analyses[a].status = "completed"

\* a run with its report
C4_Witness ==
  \E a \in Runs : Len(reports[a]) = 1 /\ analyses[a].status = "completed"

\* C5: a get_analysis response with status completed carries a report, and a
\* response with any other status carries none.
C5_ReportIffCompleted ==
  response.code = 200 => ((response.status = "completed") <=> (response.report # <<>>))

\* a completed run was read and its report returned
C5_Witness ==
  response.code = 200 /\ response.status = "completed" /\ response.report # <<>>

\* C6: a run whose document set resolved to no document executes no agent, calls
\* no model, persists no Stage Result and no Report, and, unless the commit that
\* records the failure raises, ends failed with "No documents found".
C6_NoDocumentsFailsFast ==
  \A a \in Runs :
    (Started(a) /\ task[a].documents = <<>>)
    => /\ hist[a].executed = <<>>
       /\ hist[a].calls = 0
       /\ hist[a].indexed = <<>>
       /\ agent_results[a] = <<>>
       /\ reports[a] = <<>>
       /\ pc[a] \in {"done", "handler", "crashed"}
       /\ (Ended(a) /\ ~hist[a].raised)
            => /\ analyses[a].status = "failed"
               /\ analyses[a].error_message = ERR_NO_DOCUMENTS

\* the documents of a run were deleted before its task resolved them
C6_Witness ==
  \E a \in Runs :
    /\ pc[a] = "done" /\ task[a].documents = <<>> /\ ~hist[a].raised
    /\ analyses[a].status = "failed"

\* C7: a run with resolved documents of which none yielded text executes no agent
\* and persists no Stage Result, and, unless a commit raises, ends failed with
\* "No text extracted from documents".
C7_NoTextFails ==
  \A a \in Runs :
    (Started(a) /\ task[a].documents # <<>> /\ hist[a].yielded = <<>>)
    => /\ hist[a].executed = <<>>
       /\ hist[a].calls = 0
       /\ agent_results[a] = <<>>
       /\ reports[a] = <<>>
       /\ (Ended(a) /\ ~hist[a].raised)
            => /\ analyses[a].status = "failed"
               /\ analyses[a].error_message = ERR_NO_TEXT

\* two documents were resolved, none yielded text, the run ended failed
C7_Witness ==
  \E a \in Runs :
    /\ pc[a] = "done" /\ ~hist[a].raised
    /\ Len(task[a].documents) >= 2 /\ hist[a].yielded = <<>>
    /\ analyses[a].error_message = ERR_NO_TEXT

\* the text a readable document contributes to the corpus
TextOf(d) == IF documents[d].ext = "pdf" THEN PdfText(d) ELSE ExcelText(d)

RECURSIVE TextsOf(_)
TextsOf(ds) == IF ds = <<>> THEN <<>> ELSE <<TextOf(Head(ds))>> \o TextsOf(Tail(ds))

\* C8: once a document yielded text, the run is not failed for lack of text and
\* fails only by an exception of a commit or of the report building; it goes on
\* to stage 1, whose corpus is the texts of exactly the documents that yielded
\* text, in order, joined by blank lines.
C8_PartialDocumentFailure ==
  \A a \in Runs :
    /\ (pc[a] = "persist" /\ Len(task[a].results) = 1)
         => task[a].context.documents_text = Join(TextsOf(hist[a].yielded))
    /\ hist[a].yielded # <<>>
         => /\ pc[a] # "fail_no_text"
            /\ analyses[a].status = "failed"
                 => /\ hist[a].raised
                    /\ analyses[a].error_message \in {EXC_COMMIT, EXC_NOT_A_MAPPING}
            /\ (Ended(a) /\ ~hist[a].raised) => hist[a].executed # <<>>

\* stage 1 ran on the text of one document while another document was skipped
C8_Witness ==
  \E a \in Runs :
    /\ pc[a] = "persist" /\ Len(task[a].results) = 1
    /\ Len(task[a].documents) >= 2
    /\ Len(hist[a].yielded) = 1
    /\ Len(task[a].doc_types) = 1

\* C9: the context of stage k binds exactly the specified slots to the persisted
\* outputs of the earlier stages.
C9_ContextThreading ==
  \A a \in Runs :
    pc[a] = "persist" =>
      LET k == Len(task[a].results)
          out == [j \in 1..Len(agent_results[a]) |-> agent_results[a][j].result_data]
      IN /\ Len(agent_results[a]) = k - 1
         /\ k = 2 => task[a].context = [financial_data |-> out[1]]
         /\ k = 3 => task[a].context = [financial_data |-> out[1], cashflow_data |-> out[2]]
         /\ k = 4 => task[a].context = [financial_data |-> out[1]]
         /\ k = 5 => task[a].context =
                       [financial_data |-> out[1], cashflow_data |-> out[2],
                        risk_data |-> out[3], compliance_data |-> out[4]]

\* stage 5 was handed four outputs of which the second and fourth are error mappings
C9_Witness ==
  \E a \in Runs :
    /\ pc[a] = "persist" /\ Len(task[a].results) = 5
    /\ ~HasKey(task[a].context.financial_data, "error")
    /\ HasKey(task[a].context.cashflow_data, "error")
    /\ ~HasKey(task[a].context.risk_data, "error")
    /\ HasKey(task[a].context.compliance_data, "error")

\* C10: the report of a completed run has exactly six sections: sections 1-4 are
\* the Stage Results 1-4, section 6 is the stage-5 output, and the score section
\* is stage 5's loan_readiness_score, or 0 when that key is absent.
C10_ReportAggregation ==
  \A a \in Runs :
    analyses[a].status = "completed" =>
      LET report == reports[a][1]
          out == [j \in 1..NumStages |-> agent_results[a][j].result_data]
      IN /\ DOMAIN report =
              {"section_1_financial_health", "section_2_cash_flow_forecast",
               "section_3_risk_alerts", "section_4_compliance_automation",
               "section_5_loan_readiness_score", "section_6_recommended_actions"}
         /\ report.section_1_financial_health = out[1]
         /\ report.section_2_cash_flow_forecast = out[2]
         /\ report.section_3_risk_alerts = out[3]
         /\ report.section_4_compliance_automation = out[4]
         /\ report.section_6_recommended_actions = out[5]
         /\ report.section_5_loan_readiness_score =
              IF "loan_readiness_score" \in DOMAIN out[5].value
              THEN out[5].value.loan_readiness_score ELSE 0

\* a completed run whose stage 5 gave a score of 72
C10_Witness ==
  \E a \in Runs :
    /\ analyses[a].status = "completed"
    /\ HasKey(agent_results[a][5].result_data, "loan_readiness_score")
    /\ reports[a][1].section_5_loan_readiness_score = 72

\* C15: the get_analysis response for a run that ended failed carries the
\* status failed and the error string captured for the run.
C15_FailedRunExposesError ==
  (response.code = 200 /\ response.status = "failed")
  => /\ "error" \in DOMAIN response
     /\ response.error = analyses[response.analysis_id].error_message

\* C16: a run whose background task has ended is completed or failed, never
\* still processing.
C16_EndedRunIsTerminal ==
  \A a \in Runs : Ended(a) => analyses[a].status \in {"completed", "failed"}

\* C17: a run is created only over documents of the requesting user, its task
\* resolves and reads only documents of the run's owner, and get_analysis
\* answers with the run's status or report only when the requester owns the run.
C17_OwnerIsolation ==
  [][/\ \A u \in Users, ids \in SUBSET DocIds, a \in Runs :
         (run_analysis(u, ids, a)
          => \A d \in analysis_documents'[a] : documents[d].user_id = u)
     /\ \A a \in Runs :
          /\ \A i \in 1..Len(task'[a].documents) :
               documents[task'[a].documents[i]].user_id = analyses'[a].user_id
          /\ \A i \in 1..Len(hist'[a].indexed) :
               documents[hist'[a].indexed[i].document_id].user_id = analyses'[a].user_id
     /\ \A u \in Users, a \in Runs :
          ((get_analysis(u, a) /\ (response'.code = 200 \/ request'.pc = "report"))
           => u = analyses[a].user_id)
     /\ (get_analysis_report
         => /\ request.user = analyses[request.analysis_id].user_id
            /\ response'.user_id = request.user)]_vars

\* u2's run read u2's documents while u1 has documents too, and a request for
\* it by u1 was refused
C17_Witness ==
  \E a \in Runs :
    /\ analyses[a].user_id = "u2"
    /\ hist[a].yielded # <<>>
    /\ \E d \in DocIds : documents[d].present /\ documents[d].user_id = "u1"
    /\ response.code = 403

(* ------------------------------------------------------------------ *)
(* Properties of invoke_agent                                           *)
(* ------------------------------------------------------------------ *)

Returned == nova.pc = "returned"

\* the provider outcome of call i of the observed invocation
Outcome(i) == nova.script[i]

Transient(o) == o.kind = "ClientError" /\ o.code \in TransientCodes

\* the attempt ended with an exception that is not a provider error: raised by
\* the call, or by the parser on the reply
RaisedException(o) == o.kind = "Exception" \/ (o.kind = "reply" /\ o.text = <<J_DEEP>>)

\* the call that ended the invocation got a reply
Replied == nova.out.calls >= 1 /\ Outcome(nova.out.calls).kind = "reply"

\* the invocation ended with a provider call, not with a sleep
EndsWithCall == nova.out.trace # <<>> /\ nova.out.trace[Len(nova.out.trace)] = Converse

\* the backoff delays 1s, 2s, 4s, ... in seconds
BackoffDelays == <<1, 2, 4, 8, 16, 32>>

\* C11: against a provider whose every call reports a transient error,
\* invoke_agent makes exactly max_retries calls, sleeps 1, 2, 4, ... seconds
\* between successive calls, does not sleep after the last call, and returns
\* an error-bearing mapping.
C11_RetryBound ==
  (Returned /\ \A i \in 1..Len(nova.script) : Transient(Outcome(i)))
  => LET n == nova.max_retries
         trace == nova.out.trace
     IN /\ nova.out.calls = n
        /\ Len(trace) = IF n = 0 THEN 0 ELSE 2 * n - 1
        /\ \A i \in 1..Len(trace) :
             trace[i] = IF i % 2 = 1 THEN Converse ELSE Sleep(BackoffDelays[i \div 2])
        /\ HasKey(nova.out.result, "error")

\* four throttled calls with sleeps of 1, 2 and 4 seconds between them
C11_Witness ==
  /\ Returned
  /\ nova.max_retries = 4
  /\ \A i \in 1..4 : Transient(Outcome(i))
  /\ nova.out.sleeps = <<1, 2, 4>>
  /\ nova.out.calls = 4

\* C12: for every sequence of provider outcomes and every max_retries >= 0,
\* invoke_agent makes at most max_retries provider calls and returns a value;
\* no exception leaves it.
C12_InvokeAlwaysReturns ==
  Returned
  => /\ nova.out.calls <= nova.max_retries
     /\ nova.out.result.type \in {"dict", "list", "number"}

\* the last allowed call raised an exception that is not a provider error,
\* and a mapping came back
C12_Witness ==
  /\ Returned
  /\ nova.max_retries >= 2
  /\ nova.out.calls = nova.max_retries
  /\ Outcome(nova.max_retries).kind = "Exception"
  /\ IsDict(nova.out.result)

\* C13: a reply whose text is not valid JSON (after the fence clean-up) makes
\* invoke_agent return exactly the mapping of the raw reply text and raw_text
\* true at that attempt: no further call, and no error key.
C13_NonJsonFallback ==
  \A i \in 1..Len(nova.script) :
    (Returned /\ i <= nova.out.calls /\ Outcome(i).kind = "reply"
       /\ Outcome(i).text \in NonJsonTexts)
    => /\ nova.out.result = JDict([response |-> Outcome(i).text, raw_text |-> TRUE])
       /\ nova.out.calls = i
       /\ EndsWithCall
       /\ ~HasKey(nova.out.result, "error")

\* C14: for every JSON text J, invoke_agent returns the same data whether the
\* reply is J or J inside an opening fence (with or without the json tag) and
\* a closing fence, with or without whitespace around fence and body.
C14_FenceIdempotent ==
  \A body \in JsonBodies :
    (Returned /\ Replied
       /\ Outcome(nova.out.calls).text \in FencedForms(body) \cup BareForms(body))
    => nova.out.result =
         invoke_agent_with(nova.max_retries,
                           [nova.script EXCEPT ![nova.out.calls] = Reply(<<body>>)]).result

\* a reply with an untagged fence and whitespace everywhere was parsed
C14_Witness ==
  /\ Returned /\ Replied
  /\ Outcome(nova.out.calls).text = <<"\n", FENCE, "\n", J_SCORE, "\n", FENCE, "\n">>
  /\ nova.out.result = JDict([loan_readiness_score |-> 72])

\* C18 as claimed: a further call follows a failed attempt only when the attempt
\* failed with a transient provider error; any other failure yields an
\* error-bearing mapping at once, after exactly one call when it is the first
\* attempt, and without a backoff sleep.
C18_RetryOnlyTransient ==
  Returned
  => /\ \A i \in 1..(nova.out.calls - 1) : Transient(Outcome(i))
     /\ \A i \in 1..nova.out.calls :
          (Outcome(i).kind # "reply" /\ ~Transient(Outcome(i)))
          => /\ nova.out.calls = i
             /\ EndsWithCall
             /\ HasKey(nova.out.result, "error")
             /\ (i = 1 => nova.out.sleeps = <<>>)

\* C18 amended: a further call follows a failed attempt only when the attempt
\* failed with a transient provider error or with an exception that is not a
\* provider error; a provider error of any other category yields an
\* error-bearing mapping at once, after exactly one call when it is the first
\* attempt, and without a backoff sleep.
C18_RetryTransientOrException ==
  Returned
  => /\ \A i \in 1..(nova.out.calls - 1) :
          Transient(Outcome(i)) \/ RaisedException(Outcome(i))
     /\ \A i \in 1..nova.out.calls :
          (Outcome(i).kind = "ClientError" /\ ~Transient(Outcome(i)))
          => /\ nova.out.calls = i
             /\ EndsWithCall
             /\ HasKey(nova.out.result, "error")
             /\ (i = 1 => nova.out.sleeps = <<>>)

\* an exception was retried and the provider error that followed was not
C18_Witness ==
  /\ Returned
  /\ nova.max_retries > 2
  /\ nova.out.calls = 2
  /\ Outcome(1).kind = "Exception"
  /\ Outcome(2).kind = "ClientError" /\ ~Transient(Outcome(2))
  /\ nova.out.sleeps = <<1>>

\* C19: the returned value has the key error exactly when no provider call
\* produced a reply.
C19_ErrorKeyIffFailed ==
  Returned => (HasKey(nova.out.result, "error") <=> ~Replied)

\* C20: whenever the provider replied, the returned value is a mapping.
C20_ReplyYieldsMapping ==
  (Returned /\ Replied) => IsDict(nova.out.result)

\* the elements of a sequence
Range(seq) == {seq[i] : i \in 1..Len(seq)}

\* C21: the stage results persisted for a run are a duplicate-free prefix of the
\* fixed agent order: the i-th persisted result is the i-th agent's, so no agent
\* has two results and agent k has one only if all agents before k have one.
C21_StageResultsArePrefix ==
  /\ \A i, j \in 1..NumStages : AgentNames[i] = AgentNames[j] => i = j
  /\ \A a \in Runs :
       /\ Len(agent_results[a]) <= NumStages
       /\ \A i \in 1..Len(agent_results[a]) :
            /\ agent_results[a][i].agent_name = AgentNames[i]
            /\ agent_results[a][i].analysis_id = a

\* a run failed with the results of the first two agents persisted
C21_Witness ==
  \E a \in Runs :
    /\ analyses[a].status = "failed"
    /\ Len(agent_results[a]) = 2

\* C22: the stages of a run neither overlap nor reorder: stage k is invoked only
\* when stages 1..k-1 have returned and their results are committed, and the
\* report is written only when the result of stage 5 is committed.
C22_StagesAreSequential ==
  [][\A a \in Runs :
       /\ (hist'[a].executed # hist[a].executed) =>
            (LET k == Len(hist[a].executed) + 1 IN
               /\ hist'[a].executed = Append(hist[a].executed, k)
               /\ hist[a].executed = [i \in 1..(k - 1) |-> i]
               /\ Len(task[a].results) = k - 1
               /\ Len(agent_results[a]) = k - 1)
       /\ (reports'[a] # reports[a]) =>
            (/\ Len(agent_results[a]) = NumStages
             /\ hist[a].executed = [i \in 1..NumStages |-> i])]_vars

\* a report was written after all five stages ran
C22_Witness ==
  \E a \in Runs :
    /\ reports[a] # <<>>
    /\ Len(hist[a].executed) = NumStages

\* C23: each agent is executed at most once in a run and each execution calls
\* invoke_agent at most once; an error-bearing mapping of the Invoker is the
\* agent's result as it is, and a run makes at most 5 * max_retries provider calls.
C23_NoAgentLevelRetry ==
  \A a \in Runs :
    /\ Len(hist[a].executed) <= NumStages
    /\ \A i, j \in 1..Len(hist[a].executed) :
         hist[a].executed[i] = hist[a].executed[j] => i = j
    /\ hist[a].invocations <= Len(hist[a].executed)
    /\ \A k \in 1..Len(hist[a].invoked) :
         /\ Len(hist[a].invoked[k]) <= 1
         /\ \A v \in Range(hist[a].invoked[k]) :
              HasKey(v, "error") => task[a].results[k] = v
    /\ hist[a].calls <= hist[a].invocations * max_retries
    /\ hist[a].calls <= 5 * max_retries

\* every stage of a run was throttled at every attempt: 5 * max_retries calls,
\* and the five error mappings are the five results
C23_Witness ==
  \E a \in Runs :
    /\ hist[a].calls = 5 * max_retries
    /\ Len(task[a].results) = NumStages
    /\ \A k \in 1..NumStages : HasKey(task[a].results[k], "error")

\* C26: the duration stored in every stage result is the duration measured for
\* that agent's execution.
C26_StoredDurationIsMeasured ==
  \A a \in Runs :
    \A k \in 1..Len(agent_results[a]) :
      agent_results[a][k].execution_time_ms = hist[a].measured[k]

\* C28: after the document loop the label list handed to stage 1 has one label
\* per accumulated text in the same order: the labels of exactly the documents
\* that contributed a text.
C28_OneLabelPerText ==
  \A a \in Runs :
    (pc[a] = "persist" /\ Len(task[a].results) = 1) =>
      /\ Len(task[a].context.document_types) = Len(task[a].all_text)
      /\ task[a].context.document_types =
           [i \in 1..Len(hist[a].yielded) |-> TypeLabel(hist[a].yielded[i])]

\* C29: a document is marked processed only if its own text was extracted and
\* appended to the corpus of a run.
C29_ProcessedOnlyWithText ==
  \A d \in DocIds :
    documents[d].processed => \E a \in Runs : d \in Range(hist[a].yielded)

\* C30: the text indexed under a document's identifier is the text extracted
\* from that document.
C30_IndexedTextIsOwnText ==
  \A e \in vector_store :
    /\ e.metadata.document_id = e.document_id
    /\ e.text \in {PdfText(e.document_id), ExcelText(e.document_id)}


\* the execute call has returned
Executed == agent.pc = "returned"

\* the context holds a value that the prompt of the agent cannot serialise
PromptFails ==
  \E slot \in DOMAIN agent.context :
    slot \in PromptSlots(agent.k) /\ agent.context[slot] = PY_OBJECT

\* C24: execute never raises; when the prompt construction raises, the Invoker
\* is not called and execute returns the mapping {"error": <exception message>}.
C24_PromptErrorIsCaught ==
  Executed =>
    /\ agent.out.result.type \in {"dict", "list", "number"}
    /\ PromptFails =>
         /\ agent.out.invocations = 0
         /\ agent.out.calls = 0
         /\ agent.out.result = ErrorDict(EXC_NOT_SERIALIZABLE)

\* the risk detector returned the error mapping for a cash flow forecast that
\* cannot be serialised, against a provider that would have replied
C24_Witness ==
  /\ Executed
  /\ agent.k = 3
  /\ agent.context = [financial_data |-> JDict([executive_summary |-> "ok"]),
                      cashflow_data |-> PY_OBJECT]
  /\ agent.script[1].kind = "reply"
  /\ agent.out.result = ErrorDict(EXC_NOT_SERIALIZABLE)

\* C25: whatever value the Invoker returns, execute returns exactly that value.
C25_ExecuteReturnsInvokerValue ==
  (Executed /\ agent.out.invocations = 1) =>
    agent.out.result = agent.out.invoked[1]


\* C27: in any interleaving of the background tasks of two runs, a step of the
\* task of run a leaves the status, the error message, the stage results and the
\* report of every other run unchanged, and the stage results it writes carry
\* the run reference a.
C27_RunsAreIsolated ==
  [][\A a \in Runs :
       process_analysis(a) =>
         /\ \A b \in Runs \ {a} :
              /\ analyses'[b] = analyses[b]
              /\ agent_results'[b] = agent_results[b]
              /\ reports'[b] = reports[b]
         /\ \A r \in Range(agent_results'[a]) : r.analysis_id = a]_vars

\* one run completed with its report while the other failed after two stages
C27_Witness ==
  \E a, b \in Runs :
    /\ a # b
    /\ analyses[a].status = "completed" /\ reports[a] # <<>>
    /\ analyses[b].status = "failed" /\ reports[b] = <<>>
    /\ Len(agent_results[a]) = NumStages
    /\ Len(agent_results[b]) = 2


====
